---- MODULE Spec2Model ----
(***************************************************************************)
(* Model of the rate-limited, retry-aware invocation core of mcp-finnhub   *)
(* (src/src/finnhub_mcp/server.py): wait_for_rate_limit and                *)
(* execute_with_retry, run by several concurrent call paths.               *)
(*                                                                         *)
(* Each call path is a thread of control running one invocation of        *)
(* execute_with_retry; the paths interleave step by step, a step being a   *)
(* statement or a run of statements inside one critical section.           *)
(*                                                                         *)
(* Time is counted in tenths of a second, so RATE_LIMIT_INTERVAL = 1.1 s   *)
(* is 11 ticks and a backoff of 5 s is 50 ticks.  time.time() is the       *)
(* variable now; it never goes backwards.  time.sleep(d) returns no        *)
(* earlier than d after it was called: the clock is moved up to the wake   *)
(* time when a sleeper returns before anything else has moved it there.    *)
(*                                                                         *)
(* Spec     : NumPaths concurrent invocations without a progress sink; the *)
(*            callee answers with a result, a 429 or a 500.                *)
(* SpecSolo : one invocation alone, with or without a progress sink; the   *)
(*            callee answers each attempt with a result or any failure.    *)
(***************************************************************************)
EXTENDS Integers, Sequences, FiniteSets, TLC

(* ---------------------------------------------------------------- bounds *)
(* the number of call paths *)
NumPaths == 2
(* the wall-clock time at which the paths start; _last_request_time is 0.0 *)
(* then, more than an interval in the past                                 *)
Epoch == 20
(* how long after Epoch the clock may still move on its own, tick by tick  *)
TickHorizon == 2
(* how many rate-limit rejections the callee gives in all, in Spec *)
MaxRateLimited == 1

(* ----------------------------------------------------- program constants *)
RATE_LIMIT_INTERVAL == 11
max_retries == 3
base_wait == 5

Paths == 1..NumPaths
None == "None"

(* the holder of a lock no path holds *)
Nobody == 0

Tenths(seconds) == seconds * 10

Max(a, b) == IF a >= b THEN a ELSE b

(* ------------------------------------------------ failures of the callee *)
(* An exception object as execute_with_retry sees it: the three attributes *)
(* it looks at.  "None" is an absent attribute (or one set to None).       *)
AttrValues == {"None", "int0", "int429", "str429", "int500"}

(* an exception raised by the outbound operation *)
Exc(s, sc, c) == [origin |-> "func", status |-> s, status_code |-> sc, code |-> c]

(* the exception a failing progress sink raises from report_progress *)
SinkError == [origin |-> "sink", status |-> "None", status_code |-> "None", code |-> "None"]

(* bool(v) of Python *)
Truthy(v) == v \notin {"None", "int0"}

(* str(v) of Python *)
Str(v) ==
    CASE v = "None"   -> "None"
      [] v = "int0"   -> "0"
      [] v = "int429" -> "429"
      [] v = "str429" -> "429"
      [] v = "int500" -> "500"

(* a or b of Python: a when a is truthy, else b *)
PyOr(a, b) == IF Truthy(a) THEN a ELSE b

(* a faulty variant: 429 is looked for in every field *)
StatusOfAnyField(x) ==
    IF "int429" \in {x.status, x.status_code, x.code}
      THEN "int429"
      ELSE PyOr(PyOr(x.status, x.status_code), x.code)

(* line 67 *)
StatusOf(x) == PyOr(PyOr(x.status, x.status_code), x.code)

(* a faulty variant: every failure that carries a status is retried *)
IsRateLimitedAnyStatus(x) == Truthy(StatusOf(x))

(* line 69 *)
IsRateLimited(x) == Str(StatusOf(x)) = "429"

(* The failures the callee answers with where several paths run. *)
SomeFailures == { Exc("int429", "None", "None"), Exc("int500", "None", "None") }

(* what the callee returns *)
Results == {"quote150", "news"}

(* ------------------------------------------------------------- the state *)
VARIABLES
    now,                     \* time.time()
    _last_request_time,      \* line 20
    _request_lock,           \* line 21: the path holding it, or Nobody
    _total_requests_served,  \* line 26
    _count_lock,             \* line 27: the path holding it, or Nobody
    pc,                      \* where each call path is
    ctx,                     \* the path's ctx argument: "absent", "sink" or "failing"
    attempt,                 \* the loop variable of line 58
    wake,                    \* when the path's time.sleep is due to return
    loaded,                  \* the value += read at line 63
    result,                  \* the value func returned at line 61
    e,                       \* the exception caught at line 65: << >> or <<x>>
    outcome,                 \* how execute_with_retry ended for the path
    calls,                   \* history: times func was invoked by the path
    grants,                  \* history: times wait_for_rate_limit returned
    kinds,                   \* history: how each attempt of the path ended
    thrown,                  \* history: what the last func call produced
    waits,                   \* history: wait_time of each backoff sleep
    notes,                   \* history: progress notifications emitted
    incs,                    \* history: increments of the counter by the path
    granted_at,              \* history: when the path's pending grant was written
    asleep_since,            \* history: when the path's backoff sleep began
    grant_log,               \* history: the last two values written at line 43
    start_log,               \* history: the last two invocations of func, each
                             \* with the time of its grant and of its start
    credential,              \* os.environ.get("FINNHUB_API_KEY")
    _client,                 \* line 30: NoClient, or the handle of the Client
    _client_lock,            \* line 31: the path holding it, or Nobody
    constructed,             \* history: times Client(api_key=...) was constructed
    got,                     \* history: the handle get_client returned to the path
    request                  \* the tool invocation of the path, while it is validated

vars == << now, _last_request_time, _request_lock, _total_requests_served,
           _count_lock, pc, ctx, attempt, wake, loaded, result, e, outcome, calls,
           grants, kinds, thrown, waits, notes, incs, granted_at, asleep_since,
           grant_log, start_log, credential, _client, _client_lock, constructed,
           got, request >>

(* the state of get_client and of the tool operations *)
toolvars == << credential, _client, _client_lock, constructed, got, request >>

shared == << _last_request_time, _request_lock, _total_requests_served, _count_lock >>

locals == << attempt, wake, loaded, result, e >>

history == << calls, grants, kinds, thrown, waits, notes, incs, granted_at,
             asleep_since, grant_log, start_log >>

(* a log keeps the previous entry and the latest one *)
Record(log, t) == IF log = << >> THEN << t >> ELSE << log[Len(log)], t >>

(* what an invocation ended with, and what a call of func produced *)
Pending == [kind |-> "pending", value |-> None, exc |-> << >>]

Returned(r) == [kind |-> "returned", value |-> r, exc |-> << >>]

Raised(x) == [kind |-> "raised", value |-> None, exc |-> << x >>]

Contexts == {"absent", "sink"}

HasCtx(p) == ctx[p] # "absent"

(* line 30: _client = None *)
NoClient == 0

(* the credential as the process environment holds it: not set, set to the *)
(* empty string, or set to a key                                           *)
Credentials == {"unset", "empty", "key"}

(* the request of a path that is not inside a tool operation *)
NoRequest == [tool |-> None, stock |-> << >>, category |-> None, count |-> 0,
              days |-> << >>, metric |-> None]

(* The state after the module is imported (lines 20-31): the invoked paths *)
(* stand at the position start, the environment holds one of creds.        *)
InitAt(start, invoked, ctxs, creds) ==
    /\ now = Epoch
    /\ _last_request_time = 0
    /\ _request_lock = Nobody
    /\ _total_requests_served = 0
    /\ _count_lock = Nobody
    /\ credential \in creds
    /\ _client = NoClient
    /\ _client_lock = Nobody
    /\ constructed = 0
    /\ got = [p \in Paths |-> NoClient]
    /\ request = [p \in Paths |-> NoRequest]
    /\ pc = [p \in Paths |-> IF p \in invoked THEN start ELSE "idle"]
    /\ ctx \in ctxs
    /\ attempt = [p \in Paths |-> 0]
    /\ wake = [p \in Paths |-> 0]
    /\ loaded = [p \in Paths |-> 0]
    /\ result = [p \in Paths |-> None]
    /\ e = [p \in Paths |-> << >>]
    /\ outcome = [p \in Paths |-> Pending]
    /\ calls = [p \in Paths |-> 0]
    /\ grants = [p \in Paths |-> 0]
    /\ kinds = [p \in Paths |-> << >>]
    /\ thrown = [p \in Paths |-> Pending]
    /\ waits = [p \in Paths |-> << >>]
    /\ notes = [p \in Paths |-> << >>]
    /\ incs = [p \in Paths |-> 0]
    /\ granted_at = [p \in Paths |-> 0]
    /\ asleep_since = [p \in Paths |-> 0]
    /\ grant_log = << >>
    /\ start_log = << >>

(* execute_with_retry invoked directly, with a client at hand *)
InitWith(invoked, ctxs) == InitAt("acquire", invoked, ctxs, {"key"})

(* Spec: every path runs one invocation, none with a progress sink. *)
Init == InitWith(Paths, {[p \in Paths |-> "absent"]})

(* ------------------------------------------------------------------ time *)
(* Time passes while the paths run: scheduling delays, the callee's        *)
(* duration.                                                               *)
Tick ==
    /\ now < Epoch + TickHorizon
    /\ now' = now + 1
    /\ UNCHANGED toolvars
    /\ UNCHANGED << shared, pc, ctx, locals, outcome, history >>

(* ---------------------------------------------------- wait_for_rate_limit *)
(* a faulty variant: wait_for_rate_limit without mutual exclusion *)
RequestLockIgnored == TRUE

(* line 36: with _request_lock blocks until no path holds the lock *)
RequestLockFree == _request_lock = Nobody

(* a faulty variant: the deficit measured against the whole second *)
SleepTimeShort(current_time, last) == (RATE_LIMIT_INTERVAL - 1) - (current_time - last)

(* line 40 *)
SleepTime(current_time, last) == RATE_LIMIT_INTERVAL - (current_time - last)

(* lines 36-42: enter the with block, read the clock, and start the deficit *)
(* sleep if one is due                                                      *)
GateEnter(p) ==
    /\ pc[p] = "acquire"
    /\ RequestLockFree
    /\ _request_lock' = p
    /\ LET current_time == now
           time_since_last == current_time - _last_request_time
       IN IF time_since_last < RATE_LIMIT_INTERVAL
            THEN /\ wake' = [wake EXCEPT ![p] = now + SleepTime(current_time, _last_request_time)]
                 /\ pc' = [pc EXCEPT ![p] = "gate_sleep"]
            ELSE /\ wake' = wake
                 /\ pc' = [pc EXCEPT ![p] = "gate_stamp"]
    /\ UNCHANGED toolvars
    /\ UNCHANGED << now, _last_request_time, _total_requests_served, _count_lock,
                    ctx, attempt, loaded, result, e, outcome, history >>

(* a faulty variant: the gate's lock is not released *)
RequestLockKept(p) == p

(* lines 36-43: the with block releases the lock on its exit *)
RequestLockExit(p) == Nobody

(* line 43 and the exit of the with block, after time.sleep has returned *)
(* when the path slept at line 42                                         *)
GateStamp(p) ==
    /\ pc[p] \in {"gate_sleep", "gate_stamp"}
    /\ now' = IF pc[p] = "gate_sleep" THEN Max(now, wake[p]) ELSE now
    /\ wake' = [wake EXCEPT ![p] = 0]
    /\ _last_request_time' = now'
    /\ _request_lock' = RequestLockExit(p)
    /\ grants' = [grants EXCEPT ![p] = @ + 1]
    /\ granted_at' = [granted_at EXCEPT ![p] = now']
    /\ grant_log' = Record(grant_log, now')
    /\ pc' = [pc EXCEPT ![p] = "call"]
    /\ UNCHANGED toolvars
    /\ UNCHANGED << _total_requests_served, _count_lock, ctx, attempt, loaded,
                    result, e, outcome, calls, kinds, thrown, waits, notes, incs,
                    asleep_since, start_log >>

(* ----------------------------------------------------- execute_with_retry *)
(* line 61: func is invoked *)
CallStart(p) ==
    /\ pc[p] = "call"
    /\ calls' = [calls EXCEPT ![p] = @ + 1]
    /\ start_log' = Record(start_log, [grant |-> granted_at[p], start |-> now])
    /\ granted_at' = [granted_at EXCEPT ![p] = 0]
    /\ pc' = [pc EXCEPT ![p] = "in_call"]
    /\ UNCHANGED toolvars
    /\ UNCHANGED << now, shared, ctx, locals, outcome, grants, kinds, thrown,
                    waits, notes, incs, asleep_since, grant_log >>

(* line 61: func returns r *)
CallReturn(p, results) ==
    /\ pc[p] = "in_call"
    /\ \E r \in results :
         /\ result' = [result EXCEPT ![p] = r]
         /\ thrown' = [thrown EXCEPT ![p] = Returned(r)]
    /\ kinds' = [kinds EXCEPT ![p] = Append(@, "ok")]
    /\ pc' = [pc EXCEPT ![p] = "count_acquire"]
    /\ UNCHANGED toolvars
    /\ UNCHANGED << now, shared, ctx, attempt, wake, loaded, e, outcome, calls,
                    grants, waits, notes, incs, granted_at, asleep_since, grant_log,
                    start_log >>

(* a faulty variant: an exponential backoff, 5, 10, 20 *)
WaitTimeDoubling(a) == base_wait * (2 ^ a)

(* line 75 *)
WaitTime(a) == base_wait * (a + 1)

(* a faulty variant: the exhaustion test off by one, so that it never fires *)
IsLastAttemptOffByOne(a) == a = max_retries + 1

(* lines 70-72: the last attempt is the one with attempt = max_retries *)
IsLastAttempt(a) == a = max_retries

(* the rate-limit rejections the callee has answered with so far *)
RateLimitedSoFar ==
    LET n[q \in 0..NumPaths] ==
          IF q = 0 THEN 0
          ELSE n[q - 1] + Cardinality({i \in DOMAIN kinds[q] : kinds[q][i] = "rate_limited"})
    IN n[NumPaths]

(* lines 61, 65-80 and 92: func raises x; the handler classifies it and   *)
(* either re-raises it or goes on to the notification and the backoff.    *)
(* The callee answers with at most `budget` rate-limit rejections.        *)
CallRaise(p, failures, budget) ==
    /\ pc[p] = "in_call"
    /\ \E x \in failures :
         /\ IsRateLimited(x) => RateLimitedSoFar < budget
         /\ e' = [e EXCEPT ![p] = << x >>]
         /\ thrown' = [thrown EXCEPT ![p] = Raised(x)]
         /\ IF IsRateLimited(x)
              THEN /\ kinds' = [kinds EXCEPT ![p] = Append(@, "rate_limited")]
                   /\ IF IsLastAttempt(attempt[p])
                        THEN /\ outcome' = [outcome EXCEPT ![p] = Raised(x)]
                             /\ pc' = [pc EXCEPT ![p] = "done"]
                        ELSE /\ outcome' = outcome
                             /\ pc' = [pc EXCEPT ![p] =
                                         IF HasCtx(p) THEN "report" ELSE "sleep"]
              ELSE /\ kinds' = [kinds EXCEPT ![p] = Append(@, "other")]
                   /\ outcome' = [outcome EXCEPT ![p] = Raised(x)]
                   /\ pc' = [pc EXCEPT ![p] = "done"]
    /\ UNCHANGED toolvars
    /\ UNCHANGED << now, shared, ctx, attempt, wake, loaded, result, calls, grants,
                    waits, notes, incs, granted_at, asleep_since, grant_log,
                    start_log >>

(* a faulty variant: progress counted from one *)
NotificationOneBased(a) ==
    [progress |-> a + 1, total |-> max_retries, wait |-> WaitTime(a)]

(* lines 84-88: progress=attempt, total=max_retries, the message with the *)
(* wait                                                                   *)
Notification(a) == [progress |-> a, total |-> max_retries, wait |-> WaitTime(a)]

(* a faulty variant: the notification stands in for the backoff sleep *)
ReportExitSkipsSleep == "backoff"

(* lines 83-90: the if ctx block is followed by time.sleep, taken or not *)
ReportExit == "sleep"

(* lines 83-88: await ctx.report_progress(...) returns *)
Report(p) ==
    /\ pc[p] = "report"
    /\ notes' = [notes EXCEPT ![p] = Append(@, Notification(attempt[p]))]
    /\ pc' = [pc EXCEPT ![p] = ReportExit]
    /\ outcome' = outcome
    /\ UNCHANGED toolvars
    /\ UNCHANGED << now, shared, ctx, locals, calls, grants, kinds, thrown, waits,
                    incs, granted_at, asleep_since, grant_log, start_log >>

(* a faulty variant: a failure of the sink is swallowed *)
SinkFailureSwallowed == "sleep"

(* lines 83-88: nothing catches what the await raises inside the handler *)
SinkFailureExit == "done"

(* lines 83-88: await ctx.report_progress(...) raises; the failure leaves *)
(* execute_with_retry                                                     *)
ReportFails(p) ==
    /\ pc[p] = "report"
    /\ ctx[p] = "failing"
    /\ outcome' = [outcome EXCEPT ![p] = Raised(SinkError)]
    /\ pc' = [pc EXCEPT ![p] = SinkFailureExit]
    /\ UNCHANGED toolvars
    /\ UNCHANGED << now, shared, ctx, locals, history >>

(* line 90: time.sleep(wait_time) is called *)
BackoffStart(p) ==
    /\ pc[p] = "sleep"
    /\ wake' = [wake EXCEPT ![p] = now + Tenths(WaitTime(attempt[p]))]
    /\ waits' = [waits EXCEPT ![p] = Append(@, WaitTime(attempt[p]))]
    /\ asleep_since' = [asleep_since EXCEPT ![p] = now]
    /\ pc' = [pc EXCEPT ![p] = "backoff"]
    /\ UNCHANGED toolvars
    /\ UNCHANGED << now, shared, ctx, attempt, loaded, result, e, outcome, calls,
                    grants, kinds, thrown, notes, incs, granted_at, grant_log,
                    start_log >>

(* a faulty variant: the gate is passed once, before the loop, not in its body *)
LoopBodySkipsGate == "call"

(* lines 58-59: the loop body begins with wait_for_rate_limit() *)
LoopBodyStart == "acquire"

(* line 90 returns; line 58 takes the next value of range(max_retries + 1), *)
(* and the function falls off its end when there is none                    *)
BackoffWake(p) ==
    /\ pc[p] = "backoff"
    /\ now' = Max(now, wake[p])
    /\ wake' = [wake EXCEPT ![p] = 0]
    /\ e' = [e EXCEPT ![p] = << >>]
    /\ attempt' = [attempt EXCEPT ![p] = @ + 1]
    /\ asleep_since' = [asleep_since EXCEPT ![p] = 0]
    /\ IF attempt[p] + 1 < max_retries + 1
         THEN /\ pc' = [pc EXCEPT ![p] = LoopBodyStart]
              /\ outcome' = outcome
         ELSE /\ pc' = [pc EXCEPT ![p] = "done"]
              /\ outcome' = [outcome EXCEPT ![p] = Returned(None)]
    /\ UNCHANGED toolvars
    /\ UNCHANGED << shared, ctx, loaded, result, calls, grants, kinds, thrown,
                    waits, notes, incs, granted_at, grant_log, start_log >>

(* a faulty variant: the counter is updated without mutual exclusion *)
CountLockIgnored == TRUE

(* line 62: with _count_lock blocks until no path holds the lock *)
CountLockFree == _count_lock = Nobody

(* lines 62-63: enter the with block, and the read of                    *)
(* _total_requests_served += 1                                           *)
CountEnter(p) ==
    /\ pc[p] = "count_acquire"
    /\ CountLockFree
    /\ _count_lock' = p
    /\ loaded' = [loaded EXCEPT ![p] = _total_requests_served]
    /\ pc' = [pc EXCEPT ![p] = "count_store"]
    /\ UNCHANGED toolvars
    /\ UNCHANGED << now, _last_request_time, _request_lock, _total_requests_served,
                    ctx, attempt, wake, result, e, outcome, history >>

(* a faulty variant: the counter is written back as it was read *)
IncrementedNot(v) == v

(* a faulty variant: a success is counted twice *)
IncrementedTwice(v) == v + 2

(* line 63 *)
Incremented(v) == v + 1

(* lines 62-63: the with block releases the lock on its exit *)
CountLockExit(p) == Nobody

(* line 63, the write of += 1; the exit of the with block; line 64 *)
CountStore(p) ==
    /\ pc[p] = "count_store"
    /\ _total_requests_served' = Incremented(loaded[p])
    /\ _count_lock' = CountLockExit(p)
    /\ incs' = [incs EXCEPT ![p] = @ + 1]
    /\ loaded' = [loaded EXCEPT ![p] = 0]
    /\ outcome' = [outcome EXCEPT ![p] = Returned(result[p])]
    /\ pc' = [pc EXCEPT ![p] = "done"]
    /\ UNCHANGED toolvars
    /\ UNCHANGED << now, _last_request_time, _request_lock, ctx, attempt, wake,
                    result, e, calls, grants, kinds, thrown, waits, notes,
                    granted_at, asleep_since, grant_log, start_log >>

(* one step of a call path p that was given no progress sink *)
StepQuiet(p, results, failures, budget) ==
    \/ GateEnter(p)
    \/ GateStamp(p)
    \/ CallStart(p)
    \/ CallReturn(p, results)
    \/ CallRaise(p, failures, budget)
    \/ BackoffStart(p)
    \/ BackoffWake(p)
    \/ CountEnter(p)
    \/ CountStore(p)

(* one step of call path p *)
Step(p, results, failures, budget) ==
    \/ StepQuiet(p, results, failures, budget)
    \/ Report(p)

Next ==
    \/ Tick
    \/ \E p \in Paths : StepQuiet(p, {"quote150"}, SomeFailures, MaxRateLimited)

Spec == Init /\ [][Next]_vars

(* SpecSolo: one invocation alone, the callee free to answer each attempt  *)
(* with a result or with any failure, with or without a progress sink.     *)
AllFailures == { Exc(s, sc, c) : s \in AttrValues, sc \in AttrValues, c \in AttrValues }

InitSolo ==
    InitWith({1}, { [p \in Paths |-> IF p = 1 THEN c ELSE "absent"] : c \in Contexts })

NextSolo ==
    \/ Tick
    \/ Step(1, Results, AllFailures, max_retries + 1)

SpecSolo == InitSolo /\ [][NextSolo]_vars

(* SpecSink: one invocation alone, with a progress sink that may fail at  *)
(* any notification.                                                      *)
InitSink == InitWith({1}, { [p \in Paths |-> IF p = 1 THEN "failing" ELSE "absent"] })

NextSink ==
    \/ Tick
    \/ Step(1, Results, AllFailures, max_retries + 1)
    \/ ReportFails(1)

SpecSink == InitSink /\ [][NextSink]_vars

(* ------------------------------------------------------------ get_client *)
(* a faulty variant: get_client without mutual exclusion *)
ClientLockIgnored == TRUE

(* line 97: with _client_lock blocks until no path holds the lock *)
ClientLockFree == _client_lock = Nobody

(* a faulty variant: only an unset variable counts as missing *)
ApiKeyUnset(api_key) == api_key = "unset"

(* line 100: not api_key holds for an unset variable and for an empty one *)
ApiKeyMissing(api_key) == api_key \in {"unset", "empty"}

(* the failure of line 101 *)
ConfigError == [origin |-> "config", status |-> "None", status_code |-> "None",
                code |-> "None"]

(* a faulty variant: get_client leaves without releasing the lock *)
ClientLockKept(p) == p

(* lines 97-104: the with block releases the lock on every exit, the raise *)
(* of line 101 included                                                    *)
ClientLockExit(p) == Nobody

(* line 97: enter the with block *)
ClientEnter(p) ==
    /\ pc[p] = "client_acquire"
    /\ ClientLockFree
    /\ _client_lock' = p
    /\ request' = [request EXCEPT ![p] = NoRequest]
    /\ pc' = [pc EXCEPT ![p] = "client_check"]
    /\ UNCHANGED << now, shared, ctx, locals, outcome, history, credential, _client,
                    constructed, got >>

(* line 98: if _client is None *)
ClientCheck(p) ==
    /\ pc[p] = "client_check"
    /\ pc' = [pc EXCEPT ![p] = IF _client = NoClient THEN "client_create"
                                                     ELSE "client_return"]
    /\ UNCHANGED << now, shared, ctx, locals, outcome, history, toolvars >>

(* a faulty variant: the failure is remembered in place of a client *)
ClientAfterRaisePoisoned == NoClient - 1

(* line 101 raises before line 102 assigns: _client is None as it was *)
ClientAfterRaise == NoClient

(* lines 99-101: the credential is read and found missing; ValueError leaves *)
(* the with block and the tool operation                                     *)
ClientRaise(p) ==
    /\ pc[p] = "client_create"
    /\ ApiKeyMissing(credential)
    /\ _client' = ClientAfterRaise
    /\ _client_lock' = IF _client_lock = p THEN ClientLockExit(p) ELSE _client_lock
    /\ outcome' = [outcome EXCEPT ![p] = Raised(ConfigError)]
    /\ pc' = [pc EXCEPT ![p] = "done"]
    /\ UNCHANGED << now, shared, ctx, locals, history, credential, constructed,
                    got, request >>

(* lines 99-103: the credential is read and present; the client is built   *)
(* and stored                                                              *)
ClientCreate(p) ==
    /\ pc[p] = "client_create"
    /\ ~ApiKeyMissing(credential)
    /\ constructed' = constructed + 1
    /\ _client' = constructed + 1
    /\ pc' = [pc EXCEPT ![p] = "client_return"]
    /\ UNCHANGED << now, shared, ctx, locals, outcome, history, credential,
                    _client_lock, got, request >>

(* line 104: return _client, through the exit of the with block; the tool  *)
(* operation then enters execute_with_retry with a method of the client    *)
ClientReturn(p) ==
    /\ pc[p] = "client_return"
    /\ got' = [got EXCEPT ![p] = _client]
    /\ _client_lock' = IF _client_lock = p THEN ClientLockExit(p) ELSE _client_lock
    /\ pc' = [pc EXCEPT ![p] = "acquire"]
    /\ UNCHANGED << now, shared, ctx, locals, outcome, history, credential, _client,
                    constructed, request >>

(* one step of get_client on call path p *)
GetClient(p) ==
    \/ ClientEnter(p)
    \/ ClientCheck(p)
    \/ ClientRaise(p)
    \/ ClientCreate(p)
    \/ ClientReturn(p)

(* os.environ is changed inside the process, by whatever embeds the module *)
SetEnv ==
    /\ \E c \in Credentials \ {credential} : credential' = c
    /\ UNCHANGED << now, shared, pc, ctx, locals, outcome, history, _client,
                    _client_lock, constructed, got, request >>

(* ------------------------------------------------------- tool operations *)
(* Text is a sequence of characters, so that strip, upper and isalnum are  *)
(* computed on it.                                                         *)
Letters == {"A", "B", "C", "D", "E", "F", "G", "H", "I", "J", "K", "L", "P", "R"}

LowerLetters == {"a", "l", "p"}

Digits == {"1"}

(* str.upper, character by character *)
UpperChar(c) ==
    CASE c = "a" -> "A"
      [] c = "l" -> "L"
      [] c = "p" -> "P"
      [] OTHER -> c

upper(t) == [i \in DOMAIN t |-> UpperChar(t[i])]

RECURSIVE lstrip(_)
lstrip(t) == IF t # << >> /\ Head(t) = " " THEN lstrip(Tail(t)) ELSE t

RECURSIVE rstrip(_)
rstrip(t) ==
    IF t # << >> /\ t[Len(t)] = " " THEN rstrip(SubSeq(t, 1, Len(t) - 1)) ELSE t

(* str.strip *)
strip(t) == rstrip(lstrip(t))

(* str.isalnum: not empty and every character a letter or a digit *)
isalnum(t) ==
    /\ t # << >>
    /\ \A i \in DOMAIN t : t[i] \in Letters \cup LowerLetters \cup Digits

(* c in t *)
Contains(t, c) == \E i \in DOMAIN t : t[i] = c

(* the ValueError of a local check, by the line that raises it *)
ValidationError(line) == [origin |-> line, status |-> "None", status_code |-> "None",
                          code |-> "None"]

(* lines 107-116: << >> when the symbol is returned, else the failure *)
validate_stock_symbol(stock) ==
    IF stock = << >> \/ strip(stock) = << >>
      THEN << ValidationError("line110") >>
      ELSE LET symbol == upper(strip(stock))
           IN IF ~isalnum(symbol) /\ ~Contains(symbol, ".") /\ ~Contains(symbol, "-")
                THEN << ValidationError("line113") >>
                ELSE IF Len(symbol) > 10
                       THEN << ValidationError("line115") >>
                       ELSE << >>

(* line 132 *)
valid_categories == {"general", "forex", "crypto", "merger"}

(* line 204 *)
valid_metrics == {"all", "price", "valuation", "margin"}

(* lines 132-138: the checks of list_news; days is << >> for None *)
ListNewsCheck(r) ==
    IF r.category \notin valid_categories
      THEN << ValidationError("line134") >>
      ELSE IF r.count < 1 \/ r.count > 100
             THEN << ValidationError("line136") >>
             ELSE IF r.days # << >> /\ r.days[1] < 1
                    THEN << ValidationError("line138") >>
                    ELSE << >>

(* lines 203-206: the checks of get_basic_financials *)
BasicFinancialsCheck(r) ==
    IF validate_stock_symbol(r.stock) # << >>
      THEN validate_stock_symbol(r.stock)
      ELSE IF r.metric \notin valid_metrics
             THEN << ValidationError("line206") >>
             ELSE << >>

(* the local checks a tool operation makes before it delegates *)
LocalCheck(r) ==
    CASE r.tool = "list_news" -> ListNewsCheck(r)
      [] r.tool = "get_basic_financials" -> BasicFinancialsCheck(r)
      [] r.tool \in {"get_market_data", "get_recommendation_trends"} ->
             validate_stock_symbol(r.stock)

(* invocations of the tool operations *)
ListNews(category, count, days) ==
    [tool |-> "list_news", stock |-> << >>, category |-> category, count |-> count,
     days |-> days, metric |-> None]

OnStock(tool, stock, metric) ==
    [tool |-> tool, stock |-> stock, category |-> None, count |-> 0,
     days |-> << >>, metric |-> metric]

(* symbols a client may send: "", "  ", "  aapl  ", "AAPL", "BRK.B", "A-1", *)
(* "AA PL", "ABCDEFGHIJ", "ABCDEFGHIJK" and "  ABCDEFGHIJK "                *)
Stocks ==
    { << >>,
      << " ", " " >>,
      << " ", " ", "a", "a", "p", "l", " ", " " >>,
      << "A", "A", "P", "L" >>,
      << "B", "R", "K", ".", "B" >>,
      << "A", "-", "1" >>,
      << "A", "A", " ", "P", "L" >>,
      << "A", "B", "C", "D", "E", "F", "G", "H", "I", "J" >>,
      << "A", "B", "C", "D", "E", "F", "G", "H", "I", "J", "K" >>,
      << " ", " ", "A", "B", "C", "D", "E", "F", "G", "H", "I", "J", "K", " " >> }

Categories == valid_categories \cup {"sports", ""}

Counts == {-1, 0, 1, 10, 100, 101}

Days == { << >>, << -1 >>, << 0 >>, << 1 >>, << 7 >> }

Metrics == valid_metrics \cup {"growth", ""}

(* every invocation over the values above *)
AllRequests ==
    { ListNews(c, n, d) : c \in Categories, n \in Counts, d \in Days }
      \cup { OnStock(t, s, None) :
               t \in {"get_market_data", "get_recommendation_trends"}, s \in Stocks }
      \cup { OnStock("get_basic_financials", s, m) : s \in Stocks, m \in Metrics }

(* a few invocations, for the paths that run side by side *)
SomeRequests ==
    { ListNews("general", 10, << >>),
      ListNews("sports", 10, << >>),
      ListNews("crypto", 101, << 7 >>),
      ListNews("forex", 5, << 0 >>),
      OnStock("get_market_data", << " ", "a", "a", "p", "l", " " >>, None),
      OnStock("get_market_data", << " ", " " >>, None),
      OnStock("get_recommendation_trends",
              << "A", "B", "C", "D", "E", "F", "G", "H", "I", "J", "K" >>, None),
      OnStock("get_basic_financials", << "A", "A", "P", "L" >>, "growth") }

(* lines 132-138, 176, 203-206, 233: the tool operation is invoked with r   *)
(* and makes its local checks; it raises, or goes on to get_client()        *)
ToolValidate(p, requests) ==
    /\ pc[p] = "tool"
    /\ \E r \in requests :
         /\ request' = [request EXCEPT ![p] = r]
         /\ IF LocalCheck(r) # << >>
              THEN /\ outcome' = [outcome EXCEPT ![p] = Raised(LocalCheck(r)[1])]
                   /\ pc' = [pc EXCEPT ![p] = "done"]
              ELSE /\ outcome' = outcome
                   /\ pc' = [pc EXCEPT ![p] = "client_acquire"]
    /\ UNCHANGED << now, shared, ctx, locals, history, credential, _client,
                    _client_lock, constructed, got >>

(* one step of execute_with_retry whose callee answers with a result or     *)
(* with a failure that is not retried                                       *)
StepOnce(p, results, failures) ==
    \/ GateEnter(p)
    \/ GateStamp(p)
    \/ CallStart(p)
    \/ CallReturn(p, results)
    \/ CallRaise(p, failures, 0)
    \/ CountEnter(p)
    \/ CountStore(p)

(* the failures that carry no rate-limit signal *)
FatalFailures == { Exc("int500", "None", "None") }

(* one step of a tool operation on call path p *)
ToolStep(p, requests) ==
    \/ ToolValidate(p, requests)
    \/ GetClient(p)
    \/ StepOnce(p, {"quote150"}, FatalFailures)

(* SpecToolSolo: one tool operation alone, over every invocation and every *)
(* state of the credential.                                                *)
InitToolSolo == InitAt("tool", {1}, {[p \in Paths |-> "absent"]}, Credentials)

NextToolSolo ==
    \/ Tick
    \/ ToolStep(1, AllRequests)

SpecToolSolo == InitToolSolo /\ [][NextToolSolo]_vars

(* SpecTools: every path runs one tool operation, the credential as the    *)
(* process was started with it.                                            *)
InitTools == InitAt("tool", Paths, {[p \in Paths |-> "absent"]}, Credentials)

NextTools ==
    \/ Tick
    \/ \E p \in Paths : ToolStep(p, SomeRequests)

SpecTools == InitTools /\ [][NextTools]_vars

(* SpecEnv: every path runs one tool operation, while the credential comes *)
(* and goes in the environment.                                            *)
NextEnv ==
    \/ SetEnv
    \/ \E p \in Paths : ToolStep(p, SomeRequests)

SpecEnv == InitTools /\ [][NextEnv]_vars

(* SpecMixed: every path runs one invocation without a sink; the callee    *)
(* may answer path 1 with a rate-limit rejection every time, and answers   *)
(* the other paths with a result or a failure that is not retried.         *)
PathsNext ==
    \/ StepQuiet(1, {"quote150"}, SomeFailures, max_retries + 1)
    \/ \E p \in Paths \ {1} : StepOnce(p, {"quote150"}, FatalFailures)

NextMixed ==
    \/ Tick
    \/ PathsNext

SpecMixed == Init /\ [][NextMixed]_vars

(* SpecLive: the paths of SpecMixed under fair scheduling. Every thread is *)
(* scheduled again and again, time.sleep returns, and the callee returns   *)
(* or raises: no path that can take a step is left without one for ever.   *)
(* The steps themselves take no time: the clock moves in the sleeps.       *)
FairPaths ==
    /\ WF_vars(StepQuiet(1, {"quote150"}, SomeFailures, max_retries + 1))
    /\ \A p \in Paths \ {1} : WF_vars(StepOnce(p, {"quote150"}, FatalFailures))

SpecLive == Init /\ [][PathsNext]_vars /\ FairPaths

(* ------------------------------------------------------------ properties *)
Distance(a, b) == IF a >= b THEN a - b ELSE b - a

(* C1: the values written to _last_request_time are pairwise at least     *)
(* RATE_LIMIT_INTERVAL apart, whatever the order they are taken in, and   *)
(* _last_request_time is the latest of them.                              *)
SpacingInvariant ==
    /\ \A i, j \in DOMAIN grant_log :
         i # j => Distance(grant_log[i], grant_log[j]) >= RATE_LIMIT_INTERVAL
    /\ grant_log # << >> => _last_request_time = grant_log[Len(grant_log)]

(* C1 witness: two acquires back to back; the second slept out the whole  *)
(* deficit under the lock and was granted exactly one interval later.     *)
SpacingWitness ==
    /\ Len(grant_log) = 2
    /\ grant_log[2] - grant_log[1] = RATE_LIMIT_INTERVAL
    /\ \A p \in Paths : grants[p] = 1

(* C2 as claimed: any two outbound calls start at least                   *)
(* RATE_LIMIT_INTERVAL apart.                                             *)
CallStartsSpaced ==
    \A i, j \in DOMAIN start_log :
        i # j => Distance(start_log[i].start, start_log[j].start) >= RATE_LIMIT_INTERVAL

(* C2 as amended: every outbound call starts no earlier than the grant    *)
(* its path obtained for it, and the grants of any two outbound calls are *)
(* at least RATE_LIMIT_INTERVAL apart.                                    *)
CallGrantsSpaced ==
    /\ \A i \in DOMAIN start_log : start_log[i].start >= start_log[i].grant
    /\ \A i, j \in DOMAIN start_log :
         i # j => Distance(start_log[i].grant, start_log[j].grant) >= RATE_LIMIT_INTERVAL

(* C2 witness: two calls whose grants are an interval apart start at the  *)
(* same moment, the first path having been delayed after its grant.       *)
CallGrantsWitness ==
    /\ Len(start_log) = 2
    /\ start_log[1].start = start_log[2].start
    /\ Distance(start_log[1].grant, start_log[2].grant) >= RATE_LIMIT_INTERVAL

(* what the attempts of path p have ended with so far *)
AllRateLimited(p) == \A i \in DOMAIN kinds[p] : kinds[p][i] = "rate_limited"

RateLimitedCount(p) == Cardinality({i \in DOMAIN kinds[p] : kinds[p][i] = "rate_limited"})

Ended(p) == pc[p] = "done"

RECURSIVE SumSeq(_)
SumSeq(q) == IF q = << >> THEN 0 ELSE Head(q) + SumSeq(Tail(q))

(* C3: func is never invoked more than max_retries + 1 = 4 times by one   *)
(* invocation; an invocation all of whose attempts were rate limited ends *)
(* only after its 4th attempt, ends as soon as that attempt has failed,   *)
(* and ends by raising the failure of that attempt.                       *)
RetryCeiling ==
    \A p \in Paths :
        /\ calls[p] <= 4
        /\ (Ended(p) /\ AllRateLimited(p)) =>
               /\ calls[p] = 4
               /\ Len(kinds[p]) = 4
               /\ outcome[p].kind = "raised"
               /\ outcome[p] = thrown[p]
        /\ (AllRateLimited(p) /\ Len(kinds[p]) = 4) => Ended(p)

(* C3 witness: four rate-limit failures in a row, and the last one raised *)
RetryCeilingWitness ==
    \E p \in Paths :
        /\ Ended(p)
        /\ kinds[p] = << "rate_limited", "rate_limited", "rate_limited", "rate_limited" >>
        /\ calls[p] = 4
        /\ outcome[p].kind = "raised"

(* C4: the i-th backoff of an invocation (i = 1, 2, 3) is 5 x i seconds   *)
(* and follows the i-th rate-limit failure; there are at most three, so   *)
(* none follows the 4th failure, and they add up to at most 30 seconds;   *)
(* a path in its backoff sleep is due to wake exactly that long after it  *)
(* fell asleep.                                                           *)
BackoffSchedule ==
    \A p \in Paths :
        /\ Len(waits[p]) <= 3
        /\ \A i \in DOMAIN waits[p] : waits[p][i] = 5 * i
        /\ SumSeq(waits[p]) <= 30
        /\ Len(waits[p]) <= RateLimitedCount(p)
        /\ pc[p] = "backoff" =>
               /\ Len(waits[p]) = RateLimitedCount(p)
               /\ Len(waits[p]) = attempt[p] + 1
               /\ wake[p] - asleep_since[p] = Tenths(5 * (attempt[p] + 1))
        /\ (Ended(p) /\ RateLimitedCount(p) = 4) => waits[p] = << 5, 10, 15 >>

(* C4 witness: the invocation is exhausted after waits of 5, 10 and 15 *)
BackoffScheduleWitness ==
    \E p \in Paths :
        /\ Ended(p)
        /\ RateLimitedCount(p) = 4
        /\ waits[p] = << 5, 10, 15 >>
        /\ now >= Epoch + Tenths(30)

(* a failure none of whose three attributes is 429 or "429" *)
NoRateLimitSignal(x) ==
    /\ x.status \notin {"int429", "str429"}
    /\ x.status_code \notin {"int429", "str429"}
    /\ x.code \notin {"int429", "str429"}

LastFailedWithoutSignal(p) ==
    /\ thrown[p].kind = "raised"
    /\ NoRateLimitSignal(thrown[p].exc[1])

(* C5: an attempt that fails without a rate-limit signal ends the         *)
(* invocation at once with that failure: no later attempt, backoff or     *)
(* notification; when it was the first attempt, func was invoked once.    *)
NonRetryPassthrough ==
    \A p \in Paths :
        LastFailedWithoutSignal(p) =>
            /\ Ended(p)
            /\ outcome[p] = thrown[p]
            /\ calls[p] = Len(kinds[p])
            /\ Len(waits[p]) = Len(kinds[p]) - 1
            /\ Len(notes[p]) = IF HasCtx(p) THEN Len(kinds[p]) - 1 ELSE 0
            /\ RateLimitedCount(p) = Len(kinds[p]) - 1
            /\ wake[p] = 0

(* C5 witness: status 500 on the first attempt, one invocation of func *)
NonRetryWitness ==
    \E p \in Paths :
        /\ Ended(p)
        /\ outcome[p] = Raised(Exc("int500", "None", "None"))
        /\ calls[p] = 1
        /\ waits[p] = << >>

(* C6: an attempt that succeeds is the last one, it follows k <= 3        *)
(* rate-limited attempts and no other, and the invocation returns its     *)
(* result, having added exactly 1 to the served-request counter.          *)
SuccessShortCircuit ==
    \A p \in Paths :
        thrown[p].kind = "returned" =>
            /\ pc[p] \in {"count_acquire", "count_store", "done"}
            /\ calls[p] = Len(kinds[p])
            /\ calls[p] = RateLimitedCount(p) + 1
            /\ RateLimitedCount(p) <= 3
            /\ kinds[p][Len(kinds[p])] = "ok"
            /\ Ended(p) =>
                   /\ outcome[p] = thrown[p]
                   /\ incs[p] = 1
                   /\ _total_requests_served = 1
            /\ ~Ended(p) => (incs[p] = 0 /\ _total_requests_served = 0)

(* C6 witness: one rate-limit failure, then a result after 2 attempts *)
SuccessWitness ==
    \E p \in Paths :
        /\ Ended(p)
        /\ kinds[p] = << "rate_limited", "ok" >>
        /\ calls[p] = 2
        /\ outcome[p] = Returned("quote150")
        /\ _total_requests_served = 1

(* C7: a path has obtained as many grants as it has started attempts,     *)
(* plus one exactly while it stands between a grant and the attempt that  *)
(* grant is for; every attempt started on a grant written by its own path *)
(* since that path's previous attempt.                                    *)
GateBeforeEveryAttempt ==
    /\ \A p \in Paths :
         /\ grants[p] = calls[p] + (IF pc[p] = "call" THEN 1 ELSE 0)
         /\ pc[p] = "call" <=> granted_at[p] # 0
    /\ \A i \in DOMAIN start_log : start_log[i].grant >= Epoch

(* C7 witness: after a rate-limited first attempt and its backoff, the    *)
(* path holds its second grant and has not yet started its second attempt *)
GateBeforeRetryWitness ==
    \E p \in Paths :
        /\ pc[p] = "call"
        /\ calls[p] = 1
        /\ grants[p] = 2
        /\ kinds[p] = << "rate_limited" >>

SumIncs ==
    LET n[q \in 0..NumPaths] == IF q = 0 THEN 0 ELSE n[q - 1] + incs[q]
    IN n[NumPaths]

(* C8: _total_requests_served is its initial value 0 plus the number of   *)
(* successful attempts that have passed the increment, one per invocation *)
(* that has returned; no step takes it down or up by more than one.       *)
CounterInvariant ==
    /\ [](/\ _total_requests_served = SumIncs
          /\ \A p \in Paths :
               incs[p] = IF Ended(p) /\ outcome[p].kind = "returned" THEN 1 ELSE 0)
    /\ [][_total_requests_served' \in
            {_total_requests_served, _total_requests_served + 1}]_vars

(* C8 witness: every path has succeeded and the counter has counted each *)
CounterWitness ==
    /\ \A p \in Paths : Ended(p) /\ outcome[p].kind = "returned" /\ incs[p] = 1
    /\ _total_requests_served = NumPaths

HoldsALock(p) == _request_lock = p \/ _count_lock = p

(* C9 as claimed: no path holds _request_lock or _count_lock while it is  *)
(* in a sleep or in the outbound call.                                    *)
NarrowCriticalSections ==
    \A p \in Paths :
        pc[p] \in {"gate_sleep", "backoff", "in_call"} => ~HoldsALock(p)

Unfinished(p) == pc[p] \notin {"done", "idle"}

(* C10 as claimed: while a path is in a sleep, its backoff or the gate's  *)
(* deficit sleep, every other unfinished path can take a step.            *)
WaitingPathBlocksNoOne ==
    \A p, q \in Paths :
        (p # q /\ pc[p] \in {"backoff", "gate_sleep"} /\ Unfinished(q))
            => ENABLED StepQuiet(q, {"quote150"}, SomeFailures, MaxRateLimited)

(* --------------------------------------------------- local errors first *)
(* the text is empty or holds only spaces *)
Blank(t) == \A i \in DOMAIN t : t[i] = " "

(* the symbol the text holds has more than ten characters *)
OverTen(t) == Cardinality({i \in DOMAIN t : t[i] # " "}) > 10

(* the malformed arguments: an empty, blank or over-long symbol, an unknown *)
(* category or metric, a count outside 1..100, days below 1                 *)
Malformed(r) ==
    \/ /\ r.tool = "list_news"
       /\ \/ r.category \notin {"general", "forex", "crypto", "merger"}
          \/ r.count \notin 1..100
          \/ r.days # << >> /\ r.days[1] < 1
    \/ /\ r.tool \in {"get_market_data", "get_basic_financials",
                      "get_recommendation_trends"}
       /\ Blank(r.stock) \/ OverTen(r.stock)
    \/ /\ r.tool = "get_basic_financials"
       /\ r.metric \notin {"all", "price", "valuation", "margin"}

(* the invocation ended with a failure raised by the tool operation itself *)
LocalFailure(p) ==
    /\ Ended(p)
    /\ outcome[p].kind = "raised"
    /\ outcome[p].exc[1].origin \notin {"func", "sink"}

(* the invocation never reached the Rate Gate or the callee *)
NothingOutbound(p) ==
    /\ grants[p] = 0
    /\ calls[p] = 0
    /\ attempt[p] = 0
    /\ kinds[p] = << >>
    /\ waits[p] = << >>
    /\ incs[p] = 0

(* C11: a tool operation invoked with a malformed argument, or while the   *)
(* credential is absent, ends with a failure of its own, and an invocation *)
(* that ends so has not acquired the Rate Gate, has made no outbound call  *)
(* and no retry, and has left _last_request_time and the counter as they   *)
(* were.                                                                   *)
LocalErrorsFirst ==
    \A p \in Paths :
      /\ (request[p] # NoRequest /\ Malformed(request[p])) => LocalFailure(p)
      /\ (credential # "key" /\ pc[p] \notin {"idle", "tool"}) =>
            \/ pc[p] \in {"client_acquire", "client_check", "client_create"}
            \/ LocalFailure(p)
      /\ LocalFailure(p) =>
            /\ NothingOutbound(p)
            /\ _request_lock # p
            /\ _last_request_time = 0
            /\ grant_log = << >>
            /\ _total_requests_served = 0

LocalErrorsFirstWitness ==
    /\ Ended(1)
    /\ credential = "empty"
    /\ outcome[1] = Raised(ConfigError)
    /\ NothingOutbound(1)

(* -------------------------------------------------------- lazy singleton *)
(* C12: for any number of concurrent get_client calls the client is        *)
(* constructed at most once, every call that returns returns that one      *)
(* handle, and _client, once set, is never replaced or reset.              *)
LazySingleton ==
    /\ [](/\ constructed <= 1
          /\ _client = constructed
          /\ \A p \in Paths : got[p] # NoClient => got[p] = _client)
    /\ [][_client # NoClient => _client' = _client]_vars

LazySingletonWitness ==
    /\ constructed = 1
    /\ \E p, q \in Paths : p # q /\ got[p] = _client /\ got[q] = _client
                           /\ _client # NoClient

(* -------------------------------------------------- progress notifications *)
(* the rate-limit failures of path p that a retry follows: those of the    *)
(* first max_retries attempts                                              *)
RetriedFailures(p) ==
    {i \in DOMAIN kinds[p] : kinds[p][i] = "rate_limited" /\ i <= max_retries}

(* C13: with a progress sink, execute_with_retry emits one notification    *)
(* for each rate-limit failure that a retry follows, in the order of the   *)
(* attempts, with progress the 0-based index of the failed attempt and     *)
(* total 3, before the backoff wait of that failure starts; it emits none  *)
(* for a success, for another failure, or for the fourth rate-limit        *)
(* failure, and none without a sink.                                       *)
ProgressNotifications ==
    \A p \in Paths :
      /\ ~HasCtx(p) => notes[p] = << >>
      /\ \A i \in DOMAIN notes[p] :
            /\ notes[p][i].progress = i - 1
            /\ notes[p][i].total = 3
            /\ i \in RetriedFailures(p)
      /\ HasCtx(p) =>
            /\ Len(notes[p]) = IF pc[p] = "report"
                                 THEN Cardinality(RetriedFailures(p)) - 1
                                 ELSE Cardinality(RetriedFailures(p))
            /\ Len(waits[p]) = IF pc[p] \in {"report", "sleep"}
                                 THEN Cardinality(RetriedFailures(p)) - 1
                                 ELSE Cardinality(RetriedFailures(p))

ProgressNotificationsWitness ==
    /\ HasCtx(1)
    /\ Ended(1)
    /\ Len(kinds[1]) = max_retries + 1
    /\ AllRateLimited(1)
    /\ Len(notes[1]) = max_retries
    /\ notes[1][max_retries].progress = max_retries - 1

(* ------------------------------------------------------ sink independence *)
(* what an invocation has made of the answers it got so far, as a function *)
(* of those answers alone: the position "report" is the position "sleep"   *)
(* of an invocation without a sink                                         *)
AnswersSoFar(p) == Len(kinds[p])

CallsDue(p) == IF pc[p] = "in_call" THEN AnswersSoFar(p) + 1 ELSE AnswersSoFar(p)

GrantsDue(p) == IF pc[p] = "call" THEN CallsDue(p) + 1 ELSE CallsDue(p)

WaitsDue(p) ==
    LET k == IF pc[p] \in {"report", "sleep"}
               THEN Cardinality(RetriedFailures(p)) - 1
               ELSE Cardinality(RetriedFailures(p))
    IN [i \in 1..k |-> base_wait * i]

(* C14: an invocation with a sink that does not fail and one without a     *)
(* sink, given the same answers of the callee, make the same gate          *)
(* acquisitions, attempts and backoff waits, end with the same result or   *)
(* failure, and leave the counter and _last_request_time alike: each of    *)
(* these is determined by the answers alone, whether a sink is there or    *)
(* not.                                                                    *)
SinkIndependence ==
    \A p \in Paths :
      pc[p] # "idle" =>
        /\ calls[p] = CallsDue(p)
        /\ grants[p] = GrantsDue(p)
        /\ waits[p] = WaitsDue(p)
        /\ attempt[p] = IF pc[p] = "backoff" THEN Len(waits[p]) - 1 ELSE Len(waits[p])
        /\ pc[p] \notin {"gate_sleep", "gate_stamp"} =>
              _last_request_time = IF grant_log = << >> THEN 0
                                   ELSE grant_log[Len(grant_log)]
        /\ _total_requests_served = incs[p]
        /\ Ended(p) =>
              /\ outcome[p] = thrown[p]
              /\ incs[p] = IF kinds[p][AnswersSoFar(p)] = "ok" THEN 1 ELSE 0

SinkIndependenceWitness ==
    /\ ctx[1] = "sink"
    /\ Ended(1)
    /\ kinds[1] = << "rate_limited", "rate_limited", "ok" >>
    /\ Len(notes[1]) = 2
    /\ waits[1] = << 5, 10 >>
    /\ _total_requests_served = 1

(* ------------------------------------------------------------ termination *)
(* the three ways an invocation ends *)
Succeeded(p) ==
    /\ outcome[p].kind = "returned"
    /\ kinds[p][Len(kinds[p])] = "ok"

Exhausted(p) ==
    /\ outcome[p].kind = "raised"
    /\ Len(kinds[p]) = max_retries + 1
    /\ AllRateLimited(p)

FailedFatally(p) ==
    /\ outcome[p].kind = "raised"
    /\ kinds[p][Len(kinds[p])] = "other"

ExactlyOneEnd(p) ==
    \/ Succeeded(p) /\ ~Exhausted(p) /\ ~FailedFatally(p)
    \/ ~Succeeded(p) /\ Exhausted(p) /\ ~FailedFatally(p)
    \/ ~Succeeded(p) /\ ~Exhausted(p) /\ FailedFatally(p)

(* C15: when every call of func returns or raises and every path is        *)
(* scheduled fairly, every invocation, alone or among others, eventually   *)
(* ends, in exactly one of success, exhaustion and fatal failure, and      *)
(* stays ended with that outcome; none waits for ever on a lock, and none  *)
(* makes more than max_retries + 1 attempts.                               *)
Termination ==
    /\ <>(\A p \in Paths : Ended(p))
    /\ [](\A p \in Paths : /\ Ended(p) => ExactlyOneEnd(p)
                            /\ calls[p] <= max_retries + 1)
    /\ [][\A p \in Paths : Ended(p) => Ended(p)' /\ outcome'[p] = outcome[p]]_vars

TerminationWitness ==
    /\ \A p \in Paths : Ended(p) /\ ExactlyOneEnd(p)
    /\ Exhausted(1)
    /\ \E p \in Paths \ {1} : Succeeded(p)

(* ------------------------------------------------ rate-limit classification *)
(* the failure the last call of path p raised was followed by a retry *)
Retried(p) == ~Ended(p)

(* one of the three fields is 429 *)
AnyFieldIs429(x) ==
    \E v \in {x.status, x.status_code, x.code} : v \in {"int429", "str429"}

(* the first of status, status_code, code that is set to something other *)
(* than None or 0                                                        *)
FirstSetField(x) ==
    IF x.status \notin {"None", "int0"} THEN x.status
    ELSE IF x.status_code \notin {"None", "int0"} THEN x.status_code
    ELSE x.code

(* C16 as stated: a failure is retried exactly when at least one of its    *)
(* status, status_code and code fields is 429, whatever the other two.     *)
RetriedIffAnyField429 ==
    \A p \in Paths :
      (thrown[p].kind = "raised" /\ Len(kinds[p]) <= max_retries) =>
        (Retried(p) <=> AnyFieldIs429(thrown[p].exc[1]))

(* C16: a failure of one of the first max_retries attempts is retried      *)
(* exactly when the first field among status, status_code and code, in     *)
(* that order, that is set to something other than None or 0 reads 429; a  *)
(* failure with none of the fields, or with none of them 429, is never     *)
(* retried.                                                                *)
RetriedIffFirstSetFieldIs429 ==
    \A p \in Paths :
      (thrown[p].kind = "raised" /\ Len(kinds[p]) <= max_retries) =>
        /\ Retried(p) <=> FirstSetField(thrown[p].exc[1]) \in {"int429", "str429"}
        /\ ~AnyFieldIs429(thrown[p].exc[1]) => ~Retried(p)

RetriedIffFirstSetFieldWitness ==
    /\ Ended(1)
    /\ kinds[1] = << "rate_limited", "other" >>
    /\ thrown[1] = Raised(Exc("int500", "None", "int429"))
    /\ waits[1] = << base_wait >>

(* ----------------------------------------------------------- sink failures *)
(* C17: when the sink fails while a notification is emitted,               *)
(* execute_with_retry ends at once with the sink's failure: no backoff     *)
(* wait for that rate-limit failure, no further attempt or gate            *)
(* acquisition, and the counter unchanged.                                 *)
SinkFailuresPropagate ==
    /\ [](\A p \in Paths :
            outcome[p] = Raised(SinkError) =>
              /\ Ended(p)
              /\ kinds[p][Len(kinds[p])] = "rate_limited"
              /\ Len(waits[p]) = Len(kinds[p]) - 1
              /\ Len(notes[p]) = Len(kinds[p]) - 1
              /\ calls[p] = Len(kinds[p])
              /\ grants[p] = calls[p]
              /\ wake[p] = 0
              /\ incs[p] = 0
              /\ _total_requests_served = 0
              /\ _request_lock # p /\ _count_lock # p)
    /\ [][\A p \in Paths :
            (pc[p] = "report" /\ pc'[p] # "report" /\ notes'[p] = notes[p]) =>
              /\ outcome'[p] = Raised(SinkError)
              /\ Ended(p)'
              /\ UNCHANGED << now, shared, calls, grants, waits, incs >>]_vars

SinkFailuresPropagateWitness ==
    /\ ctx[1] = "failing"
    /\ outcome[1] = Raised(SinkError)
    /\ Ended(1)
    /\ kinds[1] = << "rate_limited", "rate_limited" >>
    /\ Len(notes[1]) = 1
    /\ waits[1] = << base_wait >>

(* ------------------------------------------------- initialization failure *)
(* a get_client call of some path has failed for want of the credential *)
SomeCallFailed == \E p \in Paths : outcome[p] = Raised(ConfigError)

(* C18 as stated: once a get_client call has failed because the credential *)
(* is absent, no later call constructs or returns a client, even when the  *)
(* credential has become available.                                        *)
InitFailureCached ==
    SomeCallFailed => /\ constructed = 0
                      /\ \A p \in Paths : got[p] = NoClient

(* C18: an initialization failure is not kept: a get_client call fails    *)
(* only when it finds no client and the credential absent at that moment, *)
(* it leaves _client unset, nothing constructed and _client_lock free,    *)
(* and every call that finds no client reads the credential anew: it      *)
(* constructs the client when the credential is there, whatever calls     *)
(* have failed before, and fails when it is not.                          *)
InitFailureNotCached ==
    [][\A p \in Paths :
         /\ (outcome[p] = Pending /\ outcome'[p] = Raised(ConfigError)) =>
               /\ credential # "key"
               /\ _client = NoClient /\ _client' = NoClient
               /\ constructed' = constructed
               /\ _client_lock' = Nobody
         /\ (pc[p] = "client_create" /\ pc'[p] # "client_create") =>
               IF credential = "key"
                 THEN /\ constructed' = constructed + 1
                      /\ _client' # NoClient
                      /\ outcome'[p] = Pending
                 ELSE /\ outcome'[p] = Raised(ConfigError)
                      /\ constructed' = constructed]_vars

InitFailureNotCachedWitness ==
    /\ SomeCallFailed
    /\ credential = "key"
    /\ constructed = 1
    /\ \E p \in Paths : got[p] = _client /\ _client # NoClient

(* ------------------------------------------------- failures and the counter *)
(* the invocations that returned a result *)
ReturnedPaths == {p \in Paths : Ended(p) /\ outcome[p].kind = "returned"}

(* C19: an invocation that ends by raising, after a failure that is not a  *)
(* rate limit or after the fourth rate-limit failure, adds nothing to      *)
(* _total_requests_served, neither on the way nor in the step that raises; *)
(* when all the concurrent invocations have ended the counter has grown by *)
(* the number of those that returned a result.                             *)
FailureLeavesCounter ==
    /\ [](\A p \in Paths : outcome[p].kind = "raised" => Ended(p) /\ incs[p] = 0)
    /\ []((\A p \in Paths : Ended(p)) =>
            _total_requests_served = Cardinality(ReturnedPaths))
    /\ [][\A p \in Paths :
            (outcome[p] = Pending /\ outcome'[p].kind = "raised") =>
               _total_requests_served' = _total_requests_served]_vars

FailureLeavesCounterWitness ==
    /\ \A p \in Paths : Ended(p)
    /\ kinds[1] = << "rate_limited", "other" >>
    /\ outcome[1].kind = "raised"
    /\ ReturnedPaths # {}
    /\ _total_requests_served = Cardinality(ReturnedPaths)

(* ---------------------------------------------------------- lock discipline *)
(* the locks path p holds *)
LocksHeld(p) ==
    {l \in {"_request_lock", "_count_lock", "_client_lock"} :
       \/ l = "_request_lock" /\ _request_lock = p
       \/ l = "_count_lock" /\ _count_lock = p
       \/ l = "_client_lock" /\ _client_lock = p}

(* C20: each call path holds at most one of _request_lock, _count_lock    *)
(* and _client_lock, and holds a lock only inside that lock's critical    *)
(* section: every exit releases it, the failure exit of get_client        *)
(* included; and whenever some call path is unfinished, some unfinished   *)
(* call path can take a step.                                             *)
NoLockNesting ==
    /\ \A p \in Paths :
         /\ Cardinality(LocksHeld(p)) <= 1
         /\ _client_lock = p <=> pc[p] \in {"client_check", "client_create",
                                            "client_return"}
         /\ _request_lock = p <=> pc[p] \in {"gate_sleep", "gate_stamp"}
         /\ _count_lock = p <=> pc[p] = "count_store"
         /\ Ended(p) => LocksHeld(p) = {}
    /\ (\E p \in Paths : Unfinished(p)) =>
         \E p \in Paths : Unfinished(p) /\ ENABLED ToolStep(p, SomeRequests)

NoLockNestingWitness ==
    /\ Ended(1)
    /\ outcome[1] = Raised(ConfigError)
    /\ _client_lock = 2
    /\ pc[2] = "client_check"


====
